---- MODULE Spec2Model ----
(***************************************************************************)
(* Page flow of marketplace/generate_pdfs.py: the BrandedPDF document      *)
(* object (header, footer, cover_page, the five content emissions and the  *)
(* two-pass info_box) driven by the three generators' call sequences.      *)
(*                                                                         *)
(* Lengths are in half millimetres (MM(x) = 2x), so that the 5.5 mm line   *)
(* height is the integer 11.  Only the vertical cursor is modelled: every  *)
(* page-break decision of the document object reads y and a height only.   *)
(* The number of lines a text wraps to depends on font metrics and is an   *)
(* input of each emission, drawn from 1..MaxLines.                         *)
(*                                                                         *)
(* marketplace/generate_assets.py follows in the second half: gradient_fill *)
(* on a small canvas, the token-run loops, the font lookups and the two     *)
(* scripts' runs over their artifacts.  Quotients are kept exact, as a      *)
(* numerator and a denominator; int() drops the fraction towards zero.      *)
(***************************************************************************)
EXTENDS Integers, Sequences, FiniteSets, TLC

VARIABLES doc, ip, pdf, g, tk, fs, run, logo, tbl, tw

vars == << doc, ip, pdf, g, tk, fs, run, logo, tbl, tw >>

\* generate_assets.py is a separate script: g is a gradient_fill call and its
\* canvas, tk a token-run loop, fs the font lookups, run a __main__ run and the
\* output directory, logo a generate_logo call, tbl the table of
\* screenshot_3_dashboard, tw two runs side by side.  Each is Idle while
\* another part is being exercised.
assets == << g, tk, fs, run, logo, tbl, tw >>

Idle == [phase |-> "idle"]

\* ------------------------------------------------------------- bounds
MaxLines == 3
MaxTitleLines == 3
MaxBoxLines == 10
MaxFlowTotal == 1300

\* ------------------------------------------------------------- geometry
MM(x) == 2 * x

PageH == 594
TMargin == 20
BMargin == 50
PageBreakTrigger == PageH - BMargin
FooterY == PageH - MM(15)
LineH == 11
NominalBoxH == 60
BoxPadTop == 6
BoxPadBottom == 8
BoxLineH == 10

\* ------------------------------------------------------------- generators
\* generate_platform_overview with the info box emitted after output().
OverviewScriptLate ==
  << "cover", "page", "SH", "BODY", "BODY", "SH", "BULP", "BULP", "BULP", "BULP", "BULP",
     "BULP", "SH", "SUB", "BODY", "SUB", "BODY", "SUB", "BODY", "SH", "BULP", "BULP",
     "BULP", "BULP", "SH", "BODY", "out", "BOX" >>

OverviewScript ==
  << "cover", "page", "SH", "BODY", "BODY", "SH", "BULP", "BULP", "BULP", "BULP", "BULP",
     "BULP", "SH", "SUB", "BODY", "SUB", "BODY", "SUB", "BODY", "SH", "BULP", "BULP",
     "BULP", "BULP", "SH", "BODY", "BOX", "out" >>

ArchitectureScript ==
  << "cover", "page", "SH", "BODY", "SUB", "BULP", "BULP", "BULP", "BULP", "BULP", "BULP",
     "SH", "BODY", "SUB", "BODY", "SUB", "BODY", "SH", "BODY", "BULP", "BULP", "BULP",
     "BULP", "SH", "BODY", "SUB", "BUL", "BUL", "BUL", "BUL", "SUB", "BULP", "BULP",
     "BULP", "BULP", "BULP", "SUB", "BODY", "SH", "SUB", "BODY", "SUB", "BODY", "SH",
     "BUL", "BUL", "BUL", "BOX", "out" >>

WhitepaperScript ==
  << "cover", "page", "SH", "BODY", "BODY", "SH", "BODY", "BODY", "BUL", "BUL", "BUL",
     "BUL", "BUL", "BODY", "SH", "SUB", "BODY", "SUB", "BODY", "BODY", "BODY", "BODY",
     "BODY", "BODY", "SH", "SUB", "BODY", "BUL", "BUL", "BUL", "BUL", "SUB", "BODY",
     "SUB", "BODY", "SH", "BODY", "BULP", "BULP", "BULP", "BULP", "BULP", "BODY", "SH",
     "BODY", "BULP", "BULP", "BULP", "BULP", "BULP", "SH", "BODY", "BUL", "BUL", "BUL",
     "BUL", "BUL", "BODY", "BUL", "BUL", "BUL", "BUL", "BUL", "SH", "BODY", "BODY", "BOX",
     "out" >>

Generators == << OverviewScript, ArchitectureScript, WhitepaperScript >>

Script(d) == Generators[d]

\* ------------------------------------------------------------- document object
NoBox == [y_start |-> 0, box_h |-> 0, pg_start |-> 0, pg_end |-> 0, text_end |-> 0, lines |-> 0]

NewPage == [kind |-> "content", hdr |-> 0, ftr |-> 0, blocks |-> FALSE, late |-> FALSE]

\* BrandedPDF(title_text): no page yet, auto page break with a 25 mm margin.
BrandedPDF ==
  [ page      |-> 0,
    y         |-> TMargin,
    in_footer |-> FALSE,
    in_header |-> FALSE,
    closed    |-> FALSE,
    ctx       |-> "none",
    pages     |-> << >>,
    rects     |-> << >>,
    below     |-> FALSE,
    back      |-> FALSE,
    box       |-> NoBox,
    total     |-> 0 ]

Who(st) == IF st.in_footer THEN "footer" ELSE IF st.in_header THEN "header" ELSE st.ctx

\* One drawing operator written to the current page, covering top..bot.  The
\* page remembers that a content block was drawn on it; the document remembers
\* whether a content block of the current method drew below the page-break limit.
Draw(st, top, bot) ==
  LET w == Who(st)
      p == st.page
      pg == st.pages[p]
      pg2 == IF w = "content"
             THEN [pg EXCEPT !.blocks = TRUE, !.late = pg.late \/ pg.ftr > 0]
             ELSE pg
  IN [st EXCEPT !.below = st.below \/ (w = "content" /\ (top > PageBreakTrigger \/ bot > PageBreakTrigger)),
                !.pages[p] = pg2]

\* set_y / set_xy: absolute positioning (a negative argument counts from the page bottom).
SetY(st, v) ==
  [st EXCEPT !.y = v,
             !.back = st.back \/ v < st.y,
             !.total = IF Who(st) = "content" THEN st.total + (v - st.y) ELSE st.total]

\* ln(h): back to the left margin, down by h; no page-break check.
Ln(st, h) ==
  [st EXCEPT !.y = st.y + h,
             !.total = IF Who(st) = "content" THEN st.total + h ELSE st.total]

\* Sequencing of two statements: the state after the first is computed once
\* and handed to the rest of the method.
Then(first, Rest(_)) == CHOOSE r \in { Rest(s) : s \in {first} } : TRUE

RECURSIVE Cell(_, _, _)

\* header() with the cover test dropped: the band is drawn on page 1 too.
HeaderNoSkip(st) ==
  Then([st EXCEPT !.in_header = TRUE,
                  !.pages[st.page].hdr = st.pages[st.page].hdr + 1,
                  !.pages[st.page].late = st.pages[st.page].late \/ st.pages[st.page].blocks],
       LAMBDA s0 :
  Then(Cell(s0, MM(8), "TOP"), LAMBDA s1 :
  Then(Cell(s1, MM(8), "NEXT"), LAMBDA s2 :
  Then(Draw(s2, s2.y, s2.y), LAMBDA s3 :
  [Ln(s3, MM(6)) EXCEPT !.in_header = st.in_header]))))

\* header() with the cover test off by one (page_no() <= 2): page 2 gets no band.
HeaderSkipTwo(st) == IF st.page <= 2 THEN st ELSE HeaderNoSkip(st)

\* header(): nothing on page 1, else brand mark, title, rule and 6 mm of space.
Header(st) ==
  IF st.page = 1
  THEN st
  ELSE Then([st EXCEPT !.in_header = TRUE,
                       !.pages[st.page].hdr = st.pages[st.page].hdr + 1,
                       !.pages[st.page].late = st.pages[st.page].late \/ st.pages[st.page].blocks],
            LAMBDA s0 :
       Then(Cell(s0, MM(8), "TOP"), LAMBDA s1 :
       Then(Cell(s1, MM(8), "NEXT"), LAMBDA s2 :
       Then(Draw(s2, s2.y, s2.y), LAMBDA s3 :
       [Ln(s3, MM(6)) EXCEPT !.in_header = st.in_header]))))

\* footer() with the cover test header() has: nothing on page 1.
FooterSkipCover(st) ==
  IF st.page = 1
  THEN st
  ELSE Then([st EXCEPT !.pages[st.page].ftr = st.pages[st.page].ftr + 1], LAMBDA s0 :
       Then(SetY(s0, FooterY), LAMBDA s1 :
       Cell(s1, MM(10), "TOP")))

\* footer(): the page-number line 15 mm above the page bottom.
Footer(st) ==
  Then([st EXCEPT !.pages[st.page].ftr = st.pages[st.page].ftr + 1], LAMBDA s0 :
  Then(SetY(s0, FooterY), LAMBDA s1 :
  Cell(s1, MM(10), "TOP")))

\* FPDF.add_page: footer of the page being left (with in_footer set), a new page
\* with the cursor at the top margin, then header().
AddPage(st) ==
  Then(IF st.page > 0
       THEN Then([st EXCEPT !.in_footer = TRUE], LAMBDA f0 :
            Then(Footer(f0), LAMBDA f1 : [f1 EXCEPT !.in_footer = FALSE]))
       ELSE st, LAMBDA s1 :
  Then([s1 EXCEPT !.page = s1.page + 1,
                  !.y = TMargin,
                  !.pages = Append(s1.pages, NewPage)], LAMBDA s2 :
  Header(s2)))

\* set_auto_page_break(auto=False): never a page break.
WillPageBreakOff(st, h) == FALSE

\* FPDF automatic page break, as configured by set_auto_page_break(auto=True, margin=25).
WillPageBreak(st, h) == st.y + h > PageBreakTrigger /\ ~st.in_footer

\* FPDF.cell(w, h, text, new_y=...): page break if needed, draw, move the cursor.
Cell(st, h, new_y) ==
  Then(IF WillPageBreak(st, h) THEN AddPage(st) ELSE st, LAMBDA s1 :
  Then(Draw(s1, s1.y, s1.y + h), LAMBDA s2 :
  IF new_y = "NEXT"
  THEN [s2 EXCEPT !.y = s1.y + h,
                  !.total = IF Who(s1) = "content" THEN s1.total + h ELSE s1.total]
  ELSE s2))

RECURSIVE MultiCell(_, _, _)
\* FPDF.multi_cell(w, h, text): n wrapped lines, each its own cell with its own
\* page-break check (an empty text still renders one line).
MultiCell(st, h, n) ==
  IF n = 0 THEN st ELSE Then(Cell(st, h, "NEXT"), LAMBDA s1 : MultiCell(s1, h, n - 1))

\* FPDF.write(h, text) of a text that fits the line: drawn at the cursor, y unchanged.
Write(st, h) == Cell(st, h, "TOP")

\* FPDF.rect(x, y, w, h, style): no page-break check, cursor unchanged.
Rect(st, y, h, style) ==
  Then(Draw(st, y, y + h), LAMBDA s1 :
  [s1 EXCEPT !.rects = Append(s1.rects, [style |-> style, pg |-> s1.page, top |-> y, bot |-> y + h])])

\* FPDF.output: the last page's footer, then the document is closed.
Output(st) ==
  Then([st EXCEPT !.in_footer = TRUE], LAMBDA f0 :
  Then(Footer(f0), LAMBDA f1 :
  [f1 EXCEPT !.in_footer = FALSE, !.closed = TRUE]))

\* ------------------------------------------------------------- BrandedPDF methods
Begin(st, c) == [st EXCEPT !.rects = << >>, !.box = NoBox, !.below = FALSE, !.back = FALSE, !.ctx = c]

cover_page(st, n) ==
  Then(Begin(st, "cover"), LAMBDA b :
  Then(AddPage(b), LAMBDA s0 :
  Then([s0 EXCEPT !.pages[s0.page].kind = "cover"], LAMBDA s1 :
  Then(Rect(s1, 0, MM(100), "F"), LAMBDA s2 :
  Then(Rect(s2, 0, MM(4), "F"), LAMBDA s3 :
  Then(SetY(s3, MM(25)), LAMBDA s4 :
  Then(Cell(s4, MM(12), "NEXT"), LAMBDA s5 :
  Then(SetY(s5, MM(50)), LAMBDA s6 :
  Then(MultiCell(s6, MM(10), n), LAMBDA s7 :
  Then(SetY(s7, MM(78)), LAMBDA s8 :
  Then(Cell(s8, MM(8), "NEXT"), LAMBDA s9 :
  Then(SetY(s9, MM(110)), LAMBDA s10 :
  Then(Cell(s10, MM(6), "NEXT"), LAMBDA s11 :
  Cell(s11, MM(6), "NEXT"))))))))))))))

add_page(st) == Then(Begin(st, "content"), LAMBDA b : AddPage(b))

section_heading(st) ==
  Then(Begin(st, "content"), LAMBDA b :
  Then(Ln(b, MM(4)), LAMBDA s1 :
  Then(Cell(s1, MM(10), "NEXT"), LAMBDA s2 :
  Then(Draw(s2, s2.y, s2.y), LAMBDA s3 :
  Ln(s3, MM(3))))))

sub_heading(st) ==
  Then(Begin(st, "content"), LAMBDA b :
  Then(Ln(b, MM(2)), LAMBDA s1 :
  Cell(s1, MM(8), "NEXT")))

body_text(st, n) ==
  Then(Begin(st, "content"), LAMBDA b :
  Then(MultiCell(b, LineH, n), LAMBDA s1 :
  Ln(s1, MM(2))))

bullet(st, n, bold_prefix) ==
  Then(Begin(st, "content"), LAMBDA b :
  Then(Cell(b, LineH, "TOP"), LAMBDA s1 :
  Then(IF bold_prefix THEN Write(s1, LineH) ELSE s1, LAMBDA s2 :
  Then(MultiCell(s2, LineH, n), LAMBDA s3 :
  Ln(s3, MM(1))))))

\* The committed rectangle drawn from the cursor after the text instead of y_start.
info_box_from_cursor(st, n) ==
  Then(Begin(st, "content"), LAMBDA b :
  Then(Ln(b, MM(2)), LAMBDA s1 :
  Then(s1.y, LAMBDA y_start :
  Then(Rect(s1, y_start, NominalBoxH, "DF"), LAMBDA s2 :
  Then(SetY(s2, y_start + BoxPadTop), LAMBDA s3 :
  Then(Cell(s3, MM(6), "NEXT"), LAMBDA s4 :
  Then(MultiCell(s4, BoxLineH, n), LAMBDA s5 :
  Then(s5.y - y_start + BoxPadBottom, LAMBDA box_h :
  Then(Rect(s5, s5.y, box_h, "D"), LAMBDA s6 :
  Then([s6 EXCEPT !.box = [y_start |-> y_start, box_h |-> box_h, pg_start |-> s1.page,
                           pg_end |-> s5.page, text_end |-> s5.y, lines |-> n]], LAMBDA s7 :
  Ln(s7, MM(4))))))))))))

info_box(st, n) ==
  Then(Begin(st, "content"), LAMBDA b :
  Then(Ln(b, MM(2)), LAMBDA s1 :
  Then(s1.y, LAMBDA y_start :
  Then(Rect(s1, y_start, NominalBoxH, "DF"), LAMBDA s2 :
  Then(SetY(s2, y_start + BoxPadTop), LAMBDA s3 :
  Then(Cell(s3, MM(6), "NEXT"), LAMBDA s4 :
  Then(MultiCell(s4, BoxLineH, n), LAMBDA s5 :
  Then(s5.y - y_start + BoxPadBottom, LAMBDA box_h :
  Then(Rect(s5, y_start, box_h, "D"), LAMBDA s6 :
  Then([s6 EXCEPT !.box = [y_start |-> y_start, box_h |-> box_h, pg_start |-> s1.page,
                           pg_end |-> s5.page, text_end |-> s5.y, lines |-> n]], LAMBDA s7 :
  Ln(s7, MM(4))))))))))))

output(st) == Then(Begin(st, "output"), LAMBDA b : Output(b))

\* ------------------------------------------------------------- the run
\* doc 1..3 are the generators __main__ calls in order; doc 0 is a document fed an
\* arbitrary sequence of content emissions after its cover and first add_page.
ContentOps == {"SH", "SUB", "BODY", "BUL", "BULP"}

Can(op) ==
  IF doc = 0
  THEN CASE ip = 1 -> op = "cover"
         [] ip = 2 -> op = "page"
         [] ip = 3 -> op = "out" \/ (op \in ContentOps /\ pdf.total < MaxFlowTotal)
         [] OTHER  -> FALSE
  ELSE /\ doc \in 1..Len(Generators)
       /\ ip \in 1..Len(Script(doc))
       /\ Script(doc)[ip] = op

Ended == IF doc = 0 THEN ip = 4 ELSE ip > Len(Script(doc))

Init ==
  /\ doc = 1
  /\ ip = 1
  /\ pdf = BrandedPDF
  /\ g = Idle /\ tk = Idle /\ fs = Idle /\ run = Idle /\ logo = Idle /\ tbl = Idle /\ tw = Idle

InitFlow ==
  /\ doc = 0
  /\ ip = 1
  /\ pdf = BrandedPDF
  /\ g = Idle /\ tk = Idle /\ fs = Idle /\ run = Idle /\ logo = Idle /\ tbl = Idle /\ tw = Idle

\* The generator moves on to its next call.
Advance(op) ==
  /\ ip' = IF doc = 0 THEN (IF op = "out" THEN 4 ELSE IF ip < 3 THEN ip + 1 ELSE 3) ELSE ip + 1
  /\ doc' = doc
  /\ UNCHANGED assets

CoverPage ==
  /\ Can("cover")
  /\ \E n \in 1..MaxTitleLines : pdf' = cover_page(pdf, n)
  /\ Advance("cover")

AddPageCall ==
  /\ Can("page")
  /\ pdf' = add_page(pdf)
  /\ Advance("page")

SectionHeading ==
  /\ Can("SH")
  /\ pdf' = section_heading(pdf)
  /\ Advance("SH")

SubHeading ==
  /\ Can("SUB")
  /\ pdf' = sub_heading(pdf)
  /\ Advance("SUB")

BodyText ==
  /\ Can("BODY")
  /\ \E n \in 1..MaxLines : pdf' = body_text(pdf, n)
  /\ Advance("BODY")

Bullet ==
  /\ Can("BUL")
  /\ \E n \in 1..MaxLines : pdf' = bullet(pdf, n, FALSE)
  /\ Advance("BUL")

BulletPrefix ==
  /\ Can("BULP")
  /\ \E n \in 1..MaxLines : pdf' = bullet(pdf, n, TRUE)
  /\ Advance("BULP")

InfoBox ==
  /\ Can("BOX")
  /\ \E n \in 1..MaxBoxLines : pdf' = info_box(pdf, n)
  /\ Advance("BOX")

OutputCall ==
  /\ Can("out")
  /\ pdf' = output(pdf)
  /\ Advance("out")

\* __main__: the next generator constructs its own BrandedPDF.
NextGenerator ==
  /\ doc \in 1..(Len(Generators) - 1)
  /\ Ended
  /\ doc' = doc + 1
  /\ ip' = 1
  /\ pdf' = BrandedPDF
  /\ UNCHANGED assets

Next ==
  \/ CoverPage
  \/ AddPageCall
  \/ SectionHeading
  \/ SubHeading
  \/ BodyText
  \/ Bullet
  \/ BulletPrefix
  \/ InfoBox
  \/ OutputCall
  \/ NextGenerator

\* The page flow alone: the emissions of section_heading, sub_heading, body_text
\* and bullet in any order.
NextFlow ==
  \/ CoverPage
  \/ AddPageCall
  \/ SectionHeading
  \/ SubHeading
  \/ BodyText
  \/ Bullet
  \/ BulletPrefix
  \/ OutputCall

Spec == Init /\ [][Next]_vars

FlowSpec == InitFlow /\ [][NextFlow]_vars

\* ------------------------------------------------------------- properties
NPages == Len(pdf.pages)

AfterBox == pdf.box # NoBox

\* The rectangles info_box drew, in drawing order.
BoxRects == pdf.rects

\* First y below the header band of a CONTENT page, and the height left for
\* content between it and the page-break limit.
ContentTop == TMargin + MM(8) + MM(6)
PrintableH == PageBreakTrigger - ContentTop

\* C1: nothing a content emission draws extends below the page-break limit
\* (page height minus the 25 mm bottom margin), because the page is broken
\* before the emission draws.
C1_NothingBelowLimit == ~pdf.below

C3_NoHeaderOnCover ==
  \A p \in 1..NPages :
    /\ (pdf.pages[p].kind = "cover") <=> (p = 1)
    /\ pdf.pages[p].kind = "cover" => pdf.pages[p].hdr = 0

C3_Witness == NPages >= 2 /\ pdf.pages[1].kind = "cover" /\ pdf.pages[1].hdr = 0 /\ pdf.pages[2].hdr = 1

\* C4: on every CONTENT page the header is drawn exactly once and before any
\* content block, and the footer exactly once and after the last content block
\* (when the page is left, or at output() for the last page).
C4_HeaderFooterOncePerContentPage ==
  \A p \in 2..NPages :
    /\ pdf.pages[p].hdr = 1
    /\ ~pdf.pages[p].late
    /\ pdf.pages[p].ftr = (IF pdf.page > p \/ pdf.closed THEN 1 ELSE 0)

C4_Witness ==
  /\ pdf.closed
  /\ NPages >= 4
  /\ \A p \in 2..NPages : pdf.pages[p].blocks /\ pdf.pages[p].hdr = 1 /\ pdf.pages[p].ftr = 1

\* C5: the rectangle info_box commits is at least as tall as the heading and
\* the body lines drawn in the first pass, and its height is positive.
C5_BoxEnclosesContent ==
  AfterBox =>
    /\ pdf.box.box_h > 0
    /\ pdf.box.box_h >= BoxPadTop + MM(6) + BoxLineH * pdf.box.lines

\* C6: after info_box the border and the fill both cover exactly
\* y_start .. y_start + measured height; nothing of the nominal first-pass
\* rectangle is left beyond or short of it.
C6_BorderAndFillCommitted ==
  AfterBox =>
    /\ \E i \in 1..Len(BoxRects) : BoxRects[i].style \in {"F", "DF"}
    /\ \A i \in 1..Len(BoxRects) :
         /\ BoxRects[i].top = pdf.box.y_start
         /\ BoxRects[i].bot = pdf.box.y_start + pdf.box.box_h

\* C7: from one cursor position, more wrapped body lines give a taller
\* committed box, whose bottom edge is at or below the last text line plus padding.
C7_BoxHeightMonotonic ==
  Can("BOX") =>
    \A n1, n2 \in 1..MaxBoxLines :
      n1 < n2 =>
        /\ info_box(pdf, n1).box.box_h < info_box(pdf, n2).box.box_h
        /\ info_box(pdf, n2).box.box_h >= BoxPadTop + MM(6) + BoxLineH * n2 + BoxPadBottom

\* C9: within a page the cursor never moves up.
C9_CursorNeverDecreases == ~pdf.back

\* C8: a content sequence whose total rendered height is 2.4 times the
\* printable height of a page (in the half-millimetre grid of the emitted heights,
\* the two totals on either side of it) lies on exactly 3 CONTENT pages after the cover.
C8_ThreeContentPages ==
  (pdf.closed /\ 5 * pdf.total >= 12 * PrintableH - 5 /\ 5 * pdf.total <= 12 * PrintableH + 5)
    => NPages = 1 + 3

C8_Witness ==
  /\ pdf.closed
  /\ 5 * pdf.total >= 12 * PrintableH - 5
  /\ 5 * pdf.total <= 12 * PrintableH + 5
  /\ NPages = 4

\* The state of the document object in the page-flow state machine.
DocState ==
  IF pdf.closed THEN "FINALIZED"
  ELSE IF pdf.page = 0 THEN "NEW"
  ELSE IF pdf.pages[pdf.page].kind = "cover" THEN "COVER"
  ELSE "CONTENT"

\* C10: a document moves COVER -> CONTENT -> FINALIZED in that order only:
\* cover_page is its first emission, output() its last operation, and nothing
\* is emitted on it after output().
C10_StateOrder ==
  [][ /\ DocState = "NEW" => DocState' \in {"NEW", "COVER"}
      /\ DocState = "COVER" => DocState' \in {"COVER", "CONTENT"}
      /\ DocState = "CONTENT" => DocState' \in {"CONTENT", "FINALIZED"}
      /\ DocState = "FINALIZED" => (pdf' = pdf \/ (doc' # doc /\ pdf' = BrandedPDF)) ]_vars

C10_Witness == doc = Len(Generators) /\ Ended /\ DocState = "FINALIZED"

\* ===================================================================
\* marketplace/generate_assets.py
\* ===================================================================
\* ----------------------------------------------------------- gradients
MaxSide == 4

INDIGO_500 == << 99, 102, 241 >>
INDIGO_900 == << 49, 46, 129 >>
CYAN_500 == << 6, 182, 212 >>
WHITE == << 255, 255, 255 >>
DeepIndigo == << 20, 15, 60 >>
GradColors == { INDIGO_500, INDIGO_900, CYAN_500, WHITE, DeepIndigo }
Directions == { "diagonal", "horizontal", "vertical" }
Channels == 1..3

\* Image.new("RGB", size): every pixel black.
Background == << 0, 0, 0 >>
CanvasSide == MaxSide + 2
\* An image is indexed by column x, then row y.
Image(w, h, fill) == [x \in 0..(w - 1) |-> [y \in 0..(h - 1) |-> fill]]
NewImage == Image(CanvasSide, CanvasSide, Background)

\* round() where the code has int().
IntRound(n, d) == (2 * n + d) \div (2 * d)

\* int() of the quotient n/d, d > 0: the fraction is dropped, towards zero.
Trunc(n, d) == IF n >= 0 THEN n \div d ELSE -((-n) \div d)

\* The position normalised by w - 1 and h - 1, so that the last pixel has t = 1.
GradTInclusive(direction, i, j, w, h) ==
  LET dw == IF w > 1 THEN w - 1 ELSE 1
      dh == IF h > 1 THEN h - 1 ELSE 1
  IN  IF direction = "diagonal" THEN << i * dw + j * dh, 2 * dh * dw >>
      ELSE IF direction = "horizontal" THEN << j, dw >>
      ELSE << i, dh >>

\* The diagonal sum of the two fractions not halved.
GradTNoHalf(direction, i, j, w, h) ==
  IF direction = "diagonal" THEN << i * w + j * h, h * w >>
  ELSE IF direction = "horizontal" THEN << j, w >>
  ELSE << i, h >>

\* The gradient run from the far edge back.
GradTReversed(direction, i, j, w, h) ==
  IF direction = "diagonal" THEN << 2 * h * w - (i * w + j * h), 2 * h * w >>
  ELSE IF direction = "horizontal" THEN << w - j, w >>
  ELSE << h - i, h >>

\* The position normalised by half the side.
GradTDoubled(direction, i, j, w, h) ==
  IF direction = "diagonal" THEN << i * w + j * h, h * w >>
  ELSE IF direction = "horizontal" THEN << 2 * j, w >>
  ELSE << 2 * i, h >>

\* t as the fraction << numerator, denominator >>: (i/h + j/w)/2, j/w or i/h.
GradT(direction, i, j, w, h) ==
  IF direction = "diagonal" THEN << i * w + j * h, 2 * h * w >>
  ELSE IF direction = "horizontal" THEN << j, w >>
  ELSE << i, h >>

\* int(color1[c] + (color2[c] - color1[c]) * t)
Channel(c1, c2, t) == Trunc(c1 * t[2] + (c2 - c1) * t[1], t[2])

\* range(h + 1) and range(w + 1).
VisitedInclusive(w, h) == (0..h) \X (0..w)

\* for i in range(h): for j in range(w): the << i, j >> the loop body runs for.
Visited(w, h) == (0..(h - 1)) \X (0..(w - 1))

\* The divisors the loop body divides by.
Divisors(direction, w, h) ==
  IF direction = "diagonal" THEN { h, w }
  ELSE IF direction = "horizontal" THEN { w }
  ELSE { h }

\* draw.point on a pixel outside the image is dropped.
gradient_fill(call) ==
  LET x1 == call.rect[1]
      y1 == call.rect[2]
      w  == call.rect[3] - call.rect[1]
      h  == call.rect[4] - call.rect[2]
      cells == Visited(w, h)
      zero  == cells # {} /\ 0 \in Divisors(call.direction, w, h)
      Fill(x, y) ==
        IF << y - y1, x - x1 >> \in cells
        THEN [c \in Channels |->
                Channel(call.color1[c], call.color2[c],
                        GradT(call.direction, y - y1, x - x1, w, h))]
        ELSE call.canvas[x][y]
  IN  [call EXCEPT
         !.phase = "done",
         !.raised = zero,
         !.divisions = IF zero THEN 1
                       ELSE Cardinality(cells) * Cardinality(Divisors(call.direction, w, h)),
         !.points = IF zero THEN 0 ELSE Cardinality(cells),
         !.canvas = IF zero THEN call.canvas
                   ELSE [x \in DOMAIN call.canvas |->
                           [y \in DOMAIN call.canvas[x] |-> Fill(x, y)]]]

InitGrad ==
  /\ doc = 0 /\ ip = 1 /\ pdf = BrandedPDF
  /\ tk = Idle /\ fs = Idle /\ run = Idle /\ logo = Idle /\ tbl = Idle /\ tw = Idle
  /\ \E x1 \in 0..1, y1 \in 0..1, w \in (-1)..MaxSide, h \in (-1)..MaxSide,
        color1 \in GradColors, color2 \in GradColors, direction \in Directions :
       g = [phase |-> "call", rect |-> << x1, y1, x1 + w, y1 + h >>,
            color1 |-> color1, color2 |-> color2, direction |-> direction,
            canvas |-> NewImage, raised |-> FALSE, divisions |-> 0, points |-> 0]

GradientFill ==
  /\ g.phase = "call"
  /\ g' = gradient_fill(g)
  /\ UNCHANGED << doc, ip, pdf, tk, fs, run, logo, tbl, tw >>

NextGrad == GradientFill

GradSpec == InitGrad /\ [][NextGrad]_vars

GW == g.rect[3] - g.rect[1]
GH == g.rect[4] - g.rect[2]
GDone == g.phase = "done"
\* The pixel the loop writes for row i and column j.
GPix(i, j) == g.canvas[g.rect[1] + j][g.rect[2] + i]
GDelta(c) == g.color2[c] - g.color1[c]

GLast == IF g.direction = "horizontal" THEN GW ELSE GH

\* C12 as the specification states it: a horizontal or vertical fill of a rect of
\* positive width and height writes exactly color1 at the top-left pixel and
\* exactly color2 at the bottom-right pixel.
C12_EndpointsExact ==
  (GDone /\ GW > 0 /\ GH > 0 /\ g.direction \in { "horizontal", "vertical" }) =>
    /\ GPix(0, 0) = g.color1
    /\ GPix(GH - 1, GW - 1) = g.color2

\* C12: a horizontal or vertical fill writes exactly color1 at the top-left
\* pixel; the bottom-right pixel has t = (n - 1)/n, n the width (horizontal) or
\* height (vertical), so each of its channels lies between c1 and c2 and equals
\* c2 only when c2 <= c1 and c1 - c2 < n.
C12_EndpointsAmended ==
  (GDone /\ GW > 0 /\ GH > 0 /\ g.direction \in { "horizontal", "vertical" }) =>
    /\ GPix(0, 0) = g.color1
    /\ \A c \in Channels :
         LET v == GPix(GH - 1, GW - 1)[c]
         IN  /\ GDelta(c) > 0 => (g.color1[c] <= v /\ v < g.color2[c])
             /\ GDelta(c) <= 0 => (g.color2[c] <= v /\ v <= g.color1[c])
             /\ (v = g.color2[c]) <=> (GDelta(c) <= 0 /\ -GDelta(c) < GLast)

\* A horizontal fill between two different colours whose last pixel is not color2.
C12_Witness ==
  /\ GDone /\ GW > 1 /\ GH > 0 /\ g.direction = "horizontal"
  /\ g.color1 # g.color2
  /\ GPix(0, 0) = g.color1
  /\ GPix(GH - 1, GW - 1) # g.color2

\* Twice the distance of the midpoint pixel's channel c from the average of c1 and c2.
GMidOff(c) ==
  LET d == 2 * GPix(GH \div 2, GW \div 2)[c] - (g.color1[c] + g.color2[c])
  IN  IF d >= 0 THEN d ELSE -d

\* C13 as the specification states it: for every rect of positive width and
\* height the diagonal fill's midpoint pixel (row floor(h/2), column floor(w/2))
\* is within 1 of the average of color1 and color2 in every channel.
C13_MidpointAverage ==
  (GDone /\ GW > 0 /\ GH > 0 /\ g.direction = "diagonal") =>
    \A c \in Channels : GMidOff(c) <= 2

\* C13: for a rect of positive even width and even height the diagonal fill's
\* midpoint pixel has t = 1/2 and is within 1 of the average of color1 and
\* color2 in every channel; with an odd width or height t is below 1/2.
C13_MidpointAmended ==
  (GDone /\ GW > 0 /\ GH > 0 /\ g.direction = "diagonal") =>
    /\ (GW % 2 = 0 /\ GH % 2 = 0) => \A c \in Channels : GMidOff(c) <= 2
    /\ \A c \in Channels :
         GPix(GH \div 2, GW \div 2)[c] =
           (g.color1[c] * 2 * GH * GW + GDelta(c) * ((GH \div 2) * GW + (GW \div 2) * GH))
             \div (2 * GH * GW)

\* A diagonal fill of an even-sided rect between colours that differ.
C13_Witness ==
  /\ GDone /\ GW = 4 /\ GH = 2 /\ g.direction = "diagonal"
  /\ \E c \in Channels : GDelta(c) > 2
  /\ \A c \in Channels : GMidOff(c) <= 2

\* C14: along the gradient axis every channel is monotonic: non-decreasing when
\* c2 >= c1 and non-increasing when c2 <= c1; in j for horizontal, in i for
\* vertical, in each of i and j for diagonal.
C14_Monotonic ==
  (GDone /\ GW > 0 /\ GH > 0) =>
    \A c \in Channels, i \in 0..(GH - 1), j \in 0..(GW - 1) :
      /\ (g.direction # "vertical" /\ j + 1 < GW) =>
           /\ GDelta(c) >= 0 => GPix(i, j)[c] <= GPix(i, j + 1)[c]
           /\ GDelta(c) <= 0 => GPix(i, j)[c] >= GPix(i, j + 1)[c]
      /\ (g.direction # "horizontal" /\ i + 1 < GH) =>
           /\ GDelta(c) >= 0 => GPix(i, j)[c] <= GPix(i + 1, j)[c]
           /\ GDelta(c) <= 0 => GPix(i, j)[c] >= GPix(i + 1, j)[c]

\* A diagonal fill with a rising and a falling channel, both changing along a row
\* and along a column.
C14_Witness ==
  /\ GDone /\ GW > 2 /\ GH > 2 /\ g.direction = "diagonal"
  /\ \E c \in Channels : GDelta(c) > 0 /\ GPix(0, 0)[c] < GPix(0, 1)[c]
                                      /\ GPix(0, 0)[c] < GPix(1, 0)[c]
  /\ \E c \in Channels : GDelta(c) < 0 /\ GPix(0, 0)[c] > GPix(0, 1)[c]
                                      /\ GPix(0, 0)[c] > GPix(1, 0)[c]

\* C15: a rect whose width or height is zero or negative makes gradient_fill
\* write no pixel, divide nothing and raise nothing: the canvas is unchanged.
C15_EmptyRectIsNoOp ==
  (GDone /\ (GW <= 0 \/ GH <= 0)) =>
    /\ g.points = 0
    /\ g.divisions = 0
    /\ ~g.raised
    /\ g.canvas = NewImage

\* A fill returned for a rect of zero width and positive height.
C15_Witness ==
  /\ GDone /\ GW = 0 /\ GH > 0
  /\ g.canvas = NewImage /\ ~g.raised

\* ----------------------------------------------------------- token runs
\* The three loops that draw a line of code as coloured runs: screenshot_2_sdk
\* (lines), screenshot_5_flow (server_lines, agent_lines).  What a run measures
\* is the font's business: width maps each text to its measured width.
MaxRuns == 3
MaxTokLines == 2
MaxGlyphW == 2

Texts == { "from", " X402Toolkit" }
TokColors == { "WHITE", "VIOLET_500" }
Runs == [text : Texts, color : TokColors]
LineSet == UNION { [1..n -> Runs] : n \in 0..MaxRuns }

TokLoops ==
  { [name |-> "lines",        left |-> 60 + 24,       top |-> 140 + 50, step |-> 22],
    [name |-> "server_lines", left |-> 70 + 20,       top |-> 350 + 70, step |-> 20],
    [name |-> "agent_lines",  left |-> 70 + 570 + 20, top |-> 350 + 70, step |-> 20] }

\* A run of the accent colour takes one pixel more.
RunAdvanceByColor(r, width) == width[r.text] + (IF r.color = "VIOLET_500" THEN 1 ELSE 0)

\* bbox = draw.textbbox((0, 0), text, font=mono); bbox[2] - bbox[0]
RunAdvance(r, width) == width[r.text]

\* The cursor left where the line before ended.
LineStartCarry(t) == t.x

\* x = code_x + 24 at the start of every line.
LineStartX(t) == t.loop.left

\* An empty line skipped before y is advanced.
LineAdvanceSkipEmpty(t, parts) == IF parts = << >> THEN 0 ELSE t.loop.step

\* y += 22 (y_cl += 20) closes every pass of the outer loop, whatever the line.
LineAdvance(t, parts) == t.loop.step

\* for text, color in line_parts: draw.text((x, y), ...); x += measured width
RECURSIVE DrawRuns(_, _, _, _)
DrawRuns(x, y, parts, width) ==
  IF parts = << >>
  THEN [x |-> x, draws |-> << >>]
  ELSE LET rest == DrawRuns(x + RunAdvance(Head(parts), width), y, Tail(parts), width)
       IN  [x |-> rest.x,
            draws |-> << [x |-> x, y |-> y, text |-> Head(parts).text,
                          color |-> Head(parts).color] >> \o rest.draws]

InitTok ==
  /\ doc = 0 /\ ip = 1 /\ pdf = BrandedPDF
  /\ g = Idle /\ fs = Idle /\ run = Idle /\ logo = Idle /\ tbl = Idle /\ tw = Idle
  /\ \E loop \in TokLoops, width \in [Texts -> 1..MaxGlyphW] :
       tk = [phase |-> "loop", loop |-> loop, width |-> width, y |-> loop.top, n |-> 0,
             x |-> loop.left, carried |-> FALSE, line |-> << >>, draws |-> << >>]

\* One pass of the outer loop: the next line's runs, then y moves down one line.
TokenLine ==
  /\ tk.phase = "loop"
  /\ tk.n < MaxTokLines
  /\ \E parts \in LineSet :
       LET d == DrawRuns(LineStartX(tk), tk.y, parts, tk.width)
       IN  tk' = [tk EXCEPT !.carried = tk.x # tk.loop.left, !.line = parts, !.draws = d.draws,
                            !.x = d.x, !.y = tk.y + LineAdvance(tk, parts), !.n = tk.n + 1]
  /\ UNCHANGED << doc, ip, pdf, g, fs, run, logo, tbl, tw >>

NextTok == TokenLine

TokSpec == InitTok /\ [][NextTok]_vars

\* The measured widths of the first k runs of the line, summed.
RECURSIVE SumW(_)
SumW(k) == IF k = 0 THEN 0 ELSE SumW(k - 1) + tk.width[tk.line[k].text]

TokDrawn == tk.phase = "loop" /\ tk.n > 0
Xs(draws) == [k \in 1..Len(draws) |-> draws[k].x]

\* C16: in a token-run loop, run k of a line is drawn at the left margin plus
\* the measured widths of the runs before it, each run starts where the one
\* before ended, the cursor's total advance is the sum of all the widths, and
\* every line starts at the left margin again.
C16_RunsContiguous ==
  TokDrawn =>
    /\ Len(tk.draws) = Len(tk.line)
    /\ \A k \in 1..Len(tk.line) :
         /\ tk.draws[k].x = tk.loop.left + SumW(k - 1)
         /\ tk.draws[k].text = tk.line[k].text
         /\ k < Len(tk.line) => tk.draws[k + 1].x = tk.draws[k].x + tk.width[tk.line[k].text]
    /\ tk.x - tk.loop.left = SumW(Len(tk.line))
    /\ Len(tk.line) > 0 => tk.draws[1].x = tk.loop.left

\* A second line of three runs of positive width, drawn after a line that moved
\* the cursor off the margin.
C16_Witness ==
  /\ TokDrawn /\ tk.n = 2 /\ Len(tk.line) = 3
  /\ tk.carried
  /\ \A t \in Texts : tk.width[t] > 0
  /\ tk.draws[3].x > tk.draws[2].x

Recolour(parts, c) == [k \in 1..Len(parts) |-> [text |-> parts[k].text, color |-> c[k]]]

\* C17: the x of a run depends on the left margin and the texts before it only:
\* drawing a suffix of the line from the cursor reached after its prefix puts
\* the suffix's runs where the whole line put them, and changing the colours of
\* the runs changes no x.
C17_PlacementIsPrefixSum ==
  TokDrawn =>
    /\ \A k \in 0..Len(tk.line) :
         LET start  == IF k < Len(tk.line) THEN tk.draws[k + 1].x ELSE tk.x
             suffix == DrawRuns(start, tk.draws[1].y, SubSeq(tk.line, k + 1, Len(tk.line)), tk.width)
         IN  k < Len(tk.line) =>
               /\ Xs(suffix.draws) = Xs(SubSeq(tk.draws, k + 1, Len(tk.line)))
               /\ suffix.x = tk.x
    /\ \A c \in [1..Len(tk.line) -> TokColors] :
         LET again == DrawRuns(tk.loop.left, tk.y, Recolour(tk.line, c), tk.width)
         IN  Xs(again.draws) = Xs(tk.draws) /\ again.x = tk.x

\* A line of three runs in two colours and of two different widths.
C17_Witness ==
  /\ TokDrawn /\ Len(tk.line) = 3
  /\ tk.line[1].color # tk.line[2].color
  /\ tk.width[tk.line[1].text] # tk.width[tk.line[2].text]
  /\ tk.width[tk.line[1].text] > 0
  /\ tk.draws[2].x > tk.draws[1].x

\* ----------------------------------------------------------- fonts
MaxFontCalls == 3

SansRegular == { "segoeui.ttf", "arial.ttf" }
SansBold == { "segoeuib.ttf", "arialbd.ttf" }
FontFiles == SansRegular \cup SansBold \cup { "consola.ttf", "cour.ttf" }
DefaultFont == "load_default"
FontSizes == { 12, 13 }
MonoSizes == { 15 }
FontKeys == [family : { "sans" }, size : FontSizes, bold : BOOLEAN]
              \cup [family : { "mono" }, size : MonoSizes, bold : { FALSE }]

\* The bold candidates put after the regular list instead of before it.
FontNamesBoldLast(bold) ==
  IF bold
  THEN << "segoeui.ttf", "segoeuib.ttf", "arial.ttf", "arialbd.ttf", "segoeuib.ttf", "arialbd.ttf" >>
  ELSE << "segoeui.ttf", "segoeuib.ttf", "arial.ttf", "arialbd.ttf" >>

\* get_font: font_names, the bold candidates put in front when bold.
font_names(bold) ==
  IF bold
  THEN << "segoeuib.ttf", "arialbd.ttf" >>
         \o << "segoeui.ttf", "segoeuib.ttf", "arial.ttf", "arialbd.ttf" >>
  ELSE << "segoeui.ttf", "segoeuib.ttf", "arial.ttf", "arialbd.ttf" >>

mono_fonts == << "consola.ttf", "cour.ttf" >>

Candidates(key) == IF key.family = "mono" THEN mono_fonts ELSE font_names(key.bold)

\* for name in font_names: try: return ImageFont.truetype(name, size)
\* except (OSError, IOError): continue -- then return ImageFont.load_default().
\* probed counts the truetype calls made.
RECURSIVE TryFonts(_, _)
TryFonts(names, avail) ==
  IF names = << >> THEN [font |-> DefaultFont, probed |-> 0]
  ELSE IF Head(names) \in avail THEN [font |-> Head(names), probed |-> 1]
  ELSE [font |-> TryFonts(Tail(names), avail).font,
        probed |-> TryFonts(Tail(names), avail).probed + 1]

\* A request already answered is served from a cache and probes nothing.
LookupCached(st, key) ==
  IF st.requests[key] > 0
  THEN [font |-> TryFonts(Candidates(key), st.avail).font, probed |-> 0]
  ELSE TryFonts(Candidates(key), st.avail)

\* Every call walks the candidate list from its start; nothing is remembered.
Lookup(st, key) == TryFonts(Candidates(key), st.avail)

FontCall(st, key) ==
  [st EXCEPT !.requests[key] = @ + 1,
             !.probes[key] = @ + Lookup(st, key).probed,
             !.calls = @ + 1,
             !.last = [key |-> key, font |-> Lookup(st, key).font,
                       first |-> st.requests[key] = 0]]

InitFonts ==
  /\ doc = 0 /\ ip = 1 /\ pdf = BrandedPDF
  /\ g = Idle /\ tk = Idle /\ run = Idle /\ logo = Idle /\ tbl = Idle /\ tw = Idle
  /\ \E avail \in SUBSET FontFiles :
       fs = [phase |-> "fonts", avail |-> avail, calls |-> 0,
             requests |-> [k \in FontKeys |-> 0], probes |-> [k \in FontKeys |-> 0],
             last |-> [key |-> "none", font |-> "none", first |-> TRUE]]

GetFont ==
  /\ fs.phase = "fonts" /\ fs.calls < MaxFontCalls
  /\ \E size \in FontSizes, bold \in BOOLEAN :
       fs' = FontCall(fs, [family |-> "sans", size |-> size, bold |-> bold])
  /\ UNCHANGED << doc, ip, pdf, g, tk, run, logo, tbl, tw >>

GetMonoFont ==
  /\ fs.phase = "fonts" /\ fs.calls < MaxFontCalls
  /\ \E size \in MonoSizes :
       fs' = FontCall(fs, [family |-> "mono", size |-> size, bold |-> FALSE])
  /\ UNCHANGED << doc, ip, pdf, g, tk, run, logo, tbl, tw >>

NextFonts ==
  \/ GetFont
  \/ GetMonoFont

FontSpec == InitFonts /\ [][NextFonts]_vars

FontReturned == fs.phase = "fonts" /\ fs.calls > 0

\* The first of the given files that is available, the default font if none is.
FirstOf(a, b, c, d) ==
  IF a \in fs.avail THEN a
  ELSE IF b \in fs.avail THEN b
  ELSE IF c \in fs.avail THEN c
  ELSE IF d \in fs.avail THEN d
  ELSE DefaultFont

\* C18: whatever subset of the font files is available, none included, get_font
\* and get_mono_font return a font: the first available candidate in list order,
\* every bold candidate before any regular one when bold is asked for, and the
\* default font when no candidate loads.
C18_FirstAvailableOrDefault ==
  FontReturned =>
    /\ fs.last.font \in FontFiles \cup { DefaultFont }
    /\ fs.last.font # DefaultFont => fs.last.font \in fs.avail
    /\ fs.last.key.family = "mono" =>
         fs.last.font = FirstOf("consola.ttf", "cour.ttf", "cour.ttf", "cour.ttf")
    /\ (fs.last.key.family = "sans" /\ ~fs.last.key.bold) =>
         fs.last.font = FirstOf("segoeui.ttf", "segoeuib.ttf", "arial.ttf", "arialbd.ttf")
    /\ (fs.last.key.family = "sans" /\ fs.last.key.bold) =>
         /\ fs.last.font = FirstOf("segoeuib.ttf", "arialbd.ttf", "segoeui.ttf", "arial.ttf")
         /\ (SansBold \cap fs.avail # {}) => fs.last.font \in SansBold

\* A bold request answered with the second bold candidate while both regular
\* files are available.
C18_Witness ==
  /\ FontReturned
  /\ fs.last.key.family = "sans" /\ fs.last.key.bold
  /\ fs.avail \cap (SansRegular \cup SansBold) = SansRegular \cup { "arialbd.ttf" }
  /\ fs.last.font = "arialbd.ttf"

\* The number of truetype calls one walk of the candidate list makes.
PassLen(key) ==
  LET names == Candidates(key)
      hits  == { i \in 1..Len(names) : names[i] \in fs.avail }
  IN  IF hits = {} THEN Len(names) ELSE CHOOSE i \in hits : \A k \in hits : i <= k

AssetArtifactsAscending ==
  << "logo-48x48.png", "logo-90x90.png", "logo-300x300.png",
     "screenshot-1-swagger.png", "screenshot-2-sdk.png", "screenshot-3-dashboard.png",
     "screenshot-4-copilot.png", "screenshot-5-flow.png", "video-thumbnail.png" >>

\* The artifacts of generate_assets.py in the order __main__ makes them.
AssetArtifacts ==
  << "logo-300x300.png", "logo-90x90.png", "logo-48x48.png",
     "screenshot-1-swagger.png", "screenshot-2-sdk.png", "screenshot-3-dashboard.png",
     "screenshot-4-copilot.png", "screenshot-5-flow.png", "video-thumbnail.png" >>

PdfArtifacts ==
  << "AgentRails-Platform-Overview.pdf", "AgentRails-Enterprise-Architecture-Guide.pdf",
     "AgentRails-x402-Protocol-Whitepaper.pdf" >>

RunScripts == { AssetArtifacts, PdfArtifacts }

\* The size of the canvas each generator creates: generate_logo(size, ...), the
\* w=1280, h=720 defaults of the scenes and the thumbnail, FPDF's A4 page in mm.
ArtifactSize(name) ==
  CASE name = "logo-300x300.png" -> << 300, 300 >>
    [] name = "logo-90x90.png"   -> << 90, 90 >>
    [] name = "logo-48x48.png"   -> << 48, 48 >>
    [] name \in { PdfArtifacts[i] : i \in 1..Len(PdfArtifacts) } -> << 210, 297 >>
    [] OTHER -> << 1280, 720 >>

\* One canvas kept for the whole run: each generator draws on what the one
\* before it left.
ReusedCanvas(r) ==
  IF r.k = 1 THEN [id |-> r.heap + 1, ops |-> << >>] ELSE r.images[r.k - 1]

\* Image.new / gradient_image / BrandedPDF(): a new object, nothing drawn on it.
NewCanvas(r) == [id |-> r.heap + 1, ops |-> << >>]

\* The generator of artifact k creates its canvas and draws on it.
Generate(r) ==
  [r EXCEPT !.generated[r.k] = @ + 1,
            !.heap = @ + 1,
            !.images[r.k] = [NewCanvas(r) EXCEPT !.ops = Append(@, r.script[r.k])]]

\* The error caught and the run carried on with the next artifact.
OnSaveErrorContinue(r) == [r EXCEPT !.k = r.k + 1]

\* Nothing catches the exception: it leaves __main__ and the process ends.
OnSaveError(r) == [r EXCEPT !.status = "aborted"]

InitRun ==
  /\ doc = 0 /\ ip = 1 /\ pdf = BrandedPDF
  /\ g = Idle /\ tk = Idle /\ fs = Idle /\ logo = Idle /\ tbl = Idle /\ tw = Idle
  /\ \E script \in RunScripts : \E disk \in [1..Len(script) -> { "absent", "old" }] :
       run = [phase |-> "run", script |-> script, k |-> 1, status |-> "running",
              disk0 |-> disk, disk |-> disk, failed_at |-> 0,
              generated |-> [i \in 1..Len(script) |-> 0],
              heap |-> 0, log |-> << >>,
              images |-> [i \in 1..Len(script) |-> [id |-> 0, ops |-> << >>]],
              attempts |-> [i \in 1..Len(script) |-> 0]]

Running == run.phase = "run" /\ run.status = "running" /\ run.k <= Len(run.script)

\* Artifact k is generated and its save returns.
SaveArtifact ==
  /\ Running
  /\ run' = [Generate(run) EXCEPT
                !.attempts[run.k] = @ + 1,
                !.disk[run.k] = "new",
                !.log = Append(@, [name |-> run.script[run.k],
                                   size |-> ArtifactSize(run.script[run.k])]),
                !.k = run.k + 1]
  /\ UNCHANGED << doc, ip, pdf, g, tk, fs, logo, tbl, tw >>

\* Artifact k is generated and its save raises.
SaveFails ==
  /\ Running
  /\ run.failed_at = 0
  /\ \E left \in { run.disk[run.k], "partial" } :
       run' = OnSaveError([Generate(run) EXCEPT !.attempts[run.k] = @ + 1,
                                               !.disk[run.k] = left, !.failed_at = run.k])
  /\ UNCHANGED << doc, ip, pdf, g, tk, fs, logo, tbl, tw >>

\* The closing print after the last artifact.
Finish ==
  /\ run.phase = "run" /\ run.status = "running" /\ run.k > Len(run.script)
  /\ run' = [run EXCEPT !.status = "finished"]
  /\ UNCHANGED << doc, ip, pdf, g, tk, fs, logo, tbl, tw >>

NextRun ==
  \/ SaveArtifact
  \/ SaveFails
  \/ Finish

RunSpec == InitRun /\ [][NextRun]_vars

\* C20: when persisting artifact k fails, the run is aborted: no artifact after
\* k is generated or written, every artifact before k stays as it was written,
\* and artifact k is not tried again; in the raster run and the document run.
C20_SaveFailureAborts ==
  (run.phase = "run" /\ run.failed_at # 0) =>
    /\ run.status = "aborted"
    /\ \A j \in 1..Len(run.script) :
         /\ j > run.failed_at =>
              (run.generated[j] = 0 /\ run.attempts[j] = 0 /\ run.disk[j] = run.disk0[j])
         /\ j < run.failed_at => (run.disk[j] = "new" /\ run.attempts[j] = 1)
         /\ j = run.failed_at => (run.attempts[j] = 1 /\ run.disk[j] # "new")

\* The raster run aborted at its fourth artifact, with files of an earlier run
\* still in place for the later ones.
C20_Witness ==
  /\ run.phase = "run" /\ run.status = "aborted"
  /\ Len(run.script) > 3 /\ run.failed_at = 4
  /\ run.disk[3] = "new"
  /\ run.disk[5] = "old"

\* A run in which no save raises; the script runs on until its last statement.
NextRunOk ==
  \/ SaveArtifact
  \/ Finish

OkRunSpec == InitRun /\ [][NextRunOk]_vars /\ WF_vars(NextRunOk)

RunIsAssets == run.script[1] = "logo-300x300.png"

ExpectedAssets ==
  << [name |-> "logo-300x300.png", size |-> << 300, 300 >>],
     [name |-> "logo-90x90.png", size |-> << 90, 90 >>],
     [name |-> "logo-48x48.png", size |-> << 48, 48 >>],
     [name |-> "screenshot-1-swagger.png", size |-> << 1280, 720 >>],
     [name |-> "screenshot-2-sdk.png", size |-> << 1280, 720 >>],
     [name |-> "screenshot-3-dashboard.png", size |-> << 1280, 720 >>],
     [name |-> "screenshot-4-copilot.png", size |-> << 1280, 720 >>],
     [name |-> "screenshot-5-flow.png", size |-> << 1280, 720 >>],
     [name |-> "video-thumbnail.png", size |-> << 1280, 720 >>] >>

ExpectedPdfs ==
  << [name |-> "AgentRails-Platform-Overview.pdf", size |-> << 210, 297 >>],
     [name |-> "AgentRails-Enterprise-Architecture-Guide.pdf", size |-> << 210, 297 >>],
     [name |-> "AgentRails-x402-Protocol-Whitepaper.pdf", size |-> << 210, 297 >>] >>

RunComplete ==
  /\ run.phase = "run" /\ run.status = "finished"
  /\ run.log = (IF RunIsAssets THEN ExpectedAssets ELSE ExpectedPdfs)
  /\ \A j \in 1..Len(run.script) : run.attempts[j] = 1 /\ run.disk[j] = "new"

\* C21: a run whose saves all succeed terminates, having written every
\* artifact exactly once and in the fixed order: the logos of 300, 90 and 48,
\* the five 1280x720 screenshots, the 1280x720 thumbnail; for the documents the
\* Platform Overview, the Architecture Guide, the Protocol Whitepaper.
C21_AllArtifactsInOrder == <>[]RunComplete

\* The raster run finished with nine files written over whatever was there.
C21_Witness ==
  /\ RunComplete /\ RunIsAssets
  /\ Len(run.log) = 9
  /\ \E j \in 1..9 : run.disk0[j] = "old"

C25_CommittedHeight ==
  [][ (pdf'.box # NoBox /\ pdf'.box.pg_start = pdf'.box.pg_end) =>
        /\ pdf'.box.y_start = pdf.y + MM(2)
        /\ pdf'.box.text_end = pdf'.box.y_start + BoxPadTop + MM(6) + BoxLineH * pdf'.box.lines
        /\ pdf'.box.box_h = pdf'.box.text_end - pdf'.box.y_start + MM(4)
        /\ Len(pdf'.rects) = 2
        /\ pdf'.rects[1].top = pdf'.box.y_start
        /\ pdf'.rects[2] = [style |-> "D", pg |-> pdf'.box.pg_end,
                            top |-> pdf'.box.y_start,
                            bot |-> pdf'.box.y_start + pdf'.box.box_h] ]_vars

\* A box of several body lines that stayed on its page.
C25_Witness ==
  /\ AfterBox /\ pdf.box.pg_start = pdf.box.pg_end
  /\ pdf.box.lines > 2
  /\ pdf.box.box_h = pdf.box.text_end - pdf.box.y_start + MM(4)
  /\ pdf.rects[2].top = pdf.box.y_start
  /\ pdf.rects[2].top < pdf.box.text_end

\* C27: every line of a token-run loop, empty or not, moves y down by exactly
\* one line height (22 in screenshot_2_sdk, 20 in screenshot_5_flow): line k
\* (from 0) is drawn at the first y plus k line heights; an empty line draws
\* nothing; the runs of a line are drawn in list order, all at the line's y.
C27_LineAdvance ==
  TokDrawn =>
    /\ tk.loop.step = (IF tk.loop.name = "lines" THEN 22 ELSE 20)
    /\ tk.y = tk.loop.top + tk.n * tk.loop.step
    /\ Len(tk.draws) = Len(tk.line)
    /\ tk.line = << >> => tk.draws = << >>
    /\ \A k \in 1..Len(tk.draws) :
         /\ tk.draws[k].y = tk.loop.top + (tk.n - 1) * tk.loop.step
         /\ tk.draws[k].text = tk.line[k].text
         /\ tk.draws[k].color = tk.line[k].color

\* A line of two runs drawn right after an empty line.
C27_Witness ==
  /\ TokDrawn /\ tk.n = 2 /\ ~tk.carried
  /\ Len(tk.draws) = 2
  /\ tk.draws[1].y = tk.loop.top + tk.loop.step
  /\ tk.draws[2].y = tk.draws[1].y

\* C28: at every pixel gradient_fill visits, for every direction and every rect
\* of positive width and height, t is in [0, 1] with no clamp, and each channel
\* written lies between the channels of color1 and color2, so within 0..255.
C28_TInUnitInterval ==
  (GDone /\ GW > 0 /\ GH > 0) =>
    \A i \in 0..(GH - 1), j \in 0..(GW - 1) :
      LET t == GradT(g.direction, i, j, GW, GH)
      IN  /\ t[2] > 0 /\ 0 <= t[1] /\ t[1] <= t[2]
          /\ \A c \in Channels :
               /\ GPix(i, j)[c] \in 0..255
               /\ GDelta(c) >= 0 => (g.color1[c] <= GPix(i, j)[c] /\ GPix(i, j)[c] <= g.color2[c])
               /\ GDelta(c) <= 0 => (g.color2[c] <= GPix(i, j)[c] /\ GPix(i, j)[c] <= g.color1[c])

\* A diagonal fill of the largest rect, its last pixel short of color2 in a
\* rising channel.
C28_Witness ==
  /\ GDone /\ GW = MaxSide /\ GH = MaxSide /\ g.direction = "diagonal"
  /\ \E c \in Channels : /\ GDelta(c) > 0
                         /\ GPix(GH - 1, GW - 1)[c] > g.color1[c]
                         /\ GPix(GH - 1, GW - 1)[c] < g.color2[c]

\* ----------------------------------------------------------- dashboard table
\* The rows loop of screenshot_3_dashboard for a canvas of height h and a table
\* of n rows (the script has seven and h = 720).
MaxRows == 8
RowStep == 32
BottomGap == 50

\* y_row = y_th + 30, with y_th = y_table + 50, y_table = y_cards + 120,
\* y_cards = y_main + 72 and y_main = 20.
RowTop == 20 + 72 + 120 + 50 + 30
TblHeights == (1..(RowTop + RowStep * MaxRows + BottomGap + 10)) \cup { 720 }

\* The bound tested at the top of the loop body, before the row is drawn.
DrawRowsCheckFirst(y_row, rows, h) ==
  LET fits == { k \in 1..Len(rows) : y_row + RowStep * (k - 1) <= h - BottomGap }
      last == IF \A k \in 1..Len(rows) : k \in fits THEN Len(rows)
              ELSE (CHOOSE k \in 1..Len(rows) : k \notin fits /\ \A m \in 1..(k - 1) : m \in fits) - 1
  IN  [k \in 1..last |-> [row |-> rows[k], y |-> y_row + RowStep * (k - 1)]]

\* for ... in rows: draw the row at y_row; y_row += 32; if y_row > h - 50: break
RECURSIVE DrawRows(_, _, _)
DrawRows(y_row, rows, h) ==
  IF rows = << >> THEN << >>
  ELSE << [row |-> Head(rows), y |-> y_row] >>
         \o (IF y_row + RowStep > h - BottomGap THEN << >>
             ELSE DrawRows(y_row + RowStep, Tail(rows), h))

InitTbl ==
  /\ doc = 0 /\ ip = 1 /\ pdf = BrandedPDF
  /\ g = Idle /\ tk = Idle /\ fs = Idle /\ run = Idle /\ logo = Idle /\ tw = Idle
  /\ \E h \in TblHeights, n \in 0..MaxRows :
       tbl = [phase |-> "rows", h |-> h, rows |-> [k \in 1..n |-> k], drawn |-> << >>,
              canvases |-> 1, raised |-> FALSE]

\* The loop never raises and never makes an image: both are left as they were.
TableRows ==
  /\ tbl.phase = "rows"
  /\ tbl' = [tbl EXCEPT !.phase = "done", !.drawn = DrawRows(RowTop, tbl.rows, tbl.h)]
  /\ UNCHANGED << doc, ip, pdf, g, tk, fs, run, logo, tw >>

NextTbl == TableRows

TblSpec == InitTbl /\ [][NextTbl]_vars

TblDone == tbl.phase = "done"

\* C29: the table's rows are drawn in list order at y values 32 apart; drawing
\* stops after the first row whose following y exceeds h - 50 and the rest is
\* dropped, with no error and no further canvas; every drawn row but the first
\* has y <= h - 50, and the first row is drawn whatever h is.
C29_RowsBounded ==
  TblDone =>
    /\ Len(tbl.drawn) <= Len(tbl.rows)
    /\ Len(tbl.rows) > 0 => Len(tbl.drawn) > 0
    /\ \A k \in 1..Len(tbl.drawn) :
         /\ tbl.drawn[k].row = tbl.rows[k]
         /\ tbl.drawn[k].y = RowTop + 32 * (k - 1)
         /\ k > 1 => tbl.drawn[k].y <= tbl.h - 50
         /\ k < Len(tbl.drawn) => tbl.drawn[k].y + 32 <= tbl.h - 50
    /\ Len(tbl.drawn) < Len(tbl.rows) =>
         tbl.drawn[Len(tbl.drawn)].y + 32 > tbl.h - 50
    /\ ~tbl.raised /\ tbl.canvases = 1

\* A canvas too short for even the first row: it is drawn alone, below the
\* bound, and the other rows are dropped.
C29_Witness ==
  /\ TblDone /\ Len(tbl.rows) > 2
  /\ Len(tbl.drawn) = 1
  /\ tbl.drawn[1].y > tbl.h - 50

\* ----------------------------------------------------------- the logo
\* generate_logo(size, filename).  Which pixels Pillow's rounded_rectangle
\* covers is Pillow's: the corner is taken as the quarter disc of radius r
\* about the corner's centre, (r, r) at the top left and, the rectangle being
\* given as (0, 0)-(size, size), (size - r, size - r) at the bottom right.
\* The icon is kept as the two draw.line calls, coordinates in 1/10000 pixel.
MaxLogoSide == 60
LogoSizes == (2..MaxLogoSide) \cup { 48, 90, 300 }
MaskOff == 0
MaskOn == 255

\* gradient_image(size, color1, color2, direction)
gradient_image(w, h, color1, color2, direction) ==
  gradient_fill([phase |-> "call", rect |-> << 0, 0, w, h >>,
                 color1 |-> color1, color2 |-> color2, direction |-> direction,
                 canvas |-> Image(w, h, Background),
                 raised |-> FALSE, divisions |-> 0, points |-> 0]).canvas

\* The corners left square.
LogoRadiusZero(size) == 0

\* radius = int(size * 0.18)
LogoRadius(size) == (18 * size) \div 100

\* The squared distance of a pixel from the nearest point of the rounded
\* rectangle's inner region: from the corner's centre inside a corner square,
\* zero elsewhere.
CornerDist2(x, y, size, r) ==
  LET cx == IF x < r THEN r ELSE IF x > size - r THEN size - r ELSE x
      cy == IF y < r THEN r ELSE IF y > size - r THEN size - r ELSE y
  IN  (x - cx) * (x - cx) + (y - cy) * (y - cy)

\* An anti-aliased mask: half coverage on the outermost ring of each corner.
RoundedMaskSoft(size, r) ==
  [x \in 0..(size - 1) |-> [y \in 0..(size - 1) |->
     IF CornerDist2(x, y, size, r) > r * r THEN MaskOff
     ELSE IF CornerDist2(x, y, size, r) > (r - 1) * (r - 1) THEN 128
     ELSE MaskOn]]

\* mask = Image.new("L", (size, size), 0); rounded_rectangle(..., fill=255)
RoundedMask(size, r) ==
  [x \in 0..(size - 1) |-> [y \in 0..(size - 1) |->
     IF CornerDist2(x, y, size, r) <= r * r THEN MaskOn ELSE MaskOff]]

\* bg.paste(img, mask=mask): each channel is bg blended towards img by mask/255.
Paste(bg, img, mask) ==
  [x \in DOMAIN bg |-> [y \in DOMAIN bg[x] |->
     [c \in Channels |->
        (img[x][y][c] * mask[x][y] + bg[x][y][c] * (255 - mask[x][y])) \div 255]]]

\* draw_terminal_icon(draw, size // 2, size // 2, size * 0.55, WHITE): the
\* chevron and the underscore, s = 0.55 size, width max(2, int(0.08 s)).
TerminalIcon(size) ==
  LET cx == 10000 * (size \div 2)
      cy == 10000 * (size \div 2)
      wd == IF (440 * size) \div 10000 > 2 THEN (440 * size) \div 10000 ELSE 2
  IN  << [points |-> << << cx - 1925 * size, cy - 1375 * size >>,
                        << cx - 275 * size, cy >>,
                        << cx - 1925 * size, cy + 1375 * size >> >>,
          fill |-> WHITE, width |-> wd],
         [points |-> << << cx + 275 * size, cy + 1375 * size >>,
                        << cx + 1925 * size, cy + 1375 * size >> >>,
          fill |-> WHITE, width |-> wd] >>

generate_logo(size) ==
  LET r == LogoRadius(size)
  IN  [phase |-> "done", size |-> size, radius |-> r,
       grad |-> gradient_image(size, size, INDIGO_500, CYAN_500, "diagonal"),
       mask |-> RoundedMask(size, r),
       img |-> Paste(Image(size, size, WHITE),
                     gradient_image(size, size, INDIGO_500, CYAN_500, "diagonal"),
                     RoundedMask(size, r)),
       icon |-> TerminalIcon(size)]

InitLogo ==
  /\ doc = 0 /\ ip = 1 /\ pdf = BrandedPDF
  /\ g = Idle /\ tk = Idle /\ fs = Idle /\ run = Idle /\ tbl = Idle /\ tw = Idle
  /\ \E size \in LogoSizes : logo = [phase |-> "call", size |-> size]

GenerateLogo ==
  /\ logo.phase = "call"
  /\ logo' = generate_logo(logo.size)
  /\ UNCHANGED << doc, ip, pdf, g, tk, fs, run, tbl, tw >>

NextLogo == GenerateLogo

LogoSpec == InitLogo /\ [][NextLogo]_vars

LogoDone == logo.phase = "done"
Logo300 == LogoDone /\ logo.size = 300

LogoSide == 0..(logo.size - 1)

\* C24 as the specification states it: the composited 300x300 logo shows colour
\* A = (99, 102, 241) exactly at pixel (0, 0), and the pixels outside the
\* mask's rounded corners show the background.
C24_ColourAAtOrigin ==
  Logo300 =>
    /\ logo.img[0][0] = INDIGO_500
    /\ \A x \in LogoSide, y \in LogoSide : logo.mask[x][y] = MaskOff => logo.img[x][y] = WHITE

\* C24: in the 300x300 logo (radius 54) the gradient holds colour A at pixel
\* (0, 0) before masking, but (0, 0) is outside the rounded corner: the
\* composited image shows the white background there, as at every pixel
\* outside the mask, and colour A at no pixel at all.
C24_OriginIsBackground ==
  Logo300 =>
    /\ logo.radius = 54
    /\ logo.grad[0][0] = INDIGO_500
    /\ logo.mask[0][0] = MaskOff
    /\ logo.img[0][0] = WHITE
    /\ \A x \in LogoSide, y \in LogoSide : logo.mask[x][y] = MaskOff => logo.img[x][y] = WHITE
    /\ \A x \in LogoSide, y \in LogoSide : logo.img[x][y] # INDIGO_500

\* The 300x300 logo: white at the origin, the gradient at the centre.
C24_Witness ==
  /\ Logo300
  /\ logo.img[0][0] = WHITE
  /\ logo.mask[150][150] = MaskOn
  /\ logo.img[150][150] = logo.grad[150][150]
  /\ logo.img[150][150] # WHITE

\* C26: for every logo size the mask holds only 0 and 255, its radius
\* int(0.18 size) is at most size/2, and the composited pixel is the gradient's
\* where the mask is 255 and white where it is 0, with no blend in between; the
\* gradient itself is as gradient_image made it, corners included.
C26_HardMaskComposite ==
  LogoDone =>
    /\ 2 * logo.radius <= logo.size
    /\ logo.radius = (18 * logo.size) \div 100
    /\ \A x \in LogoSide, y \in LogoSide :
         /\ logo.mask[x][y] \in { 0, 255 }
         /\ logo.img[x][y] = (IF logo.mask[x][y] = 255 THEN logo.grad[x][y] ELSE WHITE)
         /\ \A c \in Channels :
              logo.grad[x][y][c] =
                (INDIGO_500[c] * 2 * logo.size * logo.size
                   + (CYAN_500[c] - INDIGO_500[c]) * (y * logo.size + x * logo.size))
                  \div (2 * logo.size * logo.size)

\* The 90x90 logo: a corner pixel masked out over a gradient that is not white,
\* and the pixel on the arc's inside kept.
C26_Witness ==
  /\ LogoDone /\ logo.size = 90 /\ logo.radius = 16
  /\ logo.mask[89][89] = MaskOff
  /\ logo.img[89][89] = WHITE
  /\ logo.grad[89][89] # WHITE
  /\ logo.mask[16][0] = MaskOn
  /\ logo.img[16][0] = logo.grad[16][0]

\* ----------------------------------------------------------- two runs
\* Two runs of the scripts on the same inputs: the content (the line of runs of
\* a code panel, or a document's script with the number of lines its texts wrap
\* to), the font files present with the metric of the font they yield, and the
\* colour constants.  What differs between the runs is their environment: the
\* clock and what the output directory already holds.
TwinEnvs == [clock : { "first", "later" }, disk : { "absent", "old" }]

TwinInputs ==
  [kind : { "raster" }, avail : SUBSET { "consola.ttf", "cour.ttf" },
   width : [Texts -> 1..MaxGlyphW], line : LineSet]
    \cup [kind : { "document" }, d : 1..Len(Generators),
          n : 1..MaxLines, title : 1..MaxTitleLines]

\* One call of a generator on its document, every text wrapping to n lines.
Emit(st, op, n, title) ==
  CASE op = "cover" -> cover_page(st, title)
    [] op = "page"  -> add_page(st)
    [] op = "SH"    -> section_heading(st)
    [] op = "SUB"   -> sub_heading(st)
    [] op = "BODY"  -> body_text(st, n)
    [] op = "BUL"   -> bullet(st, n, FALSE)
    [] op = "BULP"  -> bullet(st, n, TRUE)
    [] op = "BOX"   -> info_box(st, n)
    [] OTHER        -> output(st)

\* The calls ops[lo..hi] of a generator made in order, the range halved at
\* each level.
RECURSIVE RunCalls(_, _, _, _, _, _)
RunCalls(st, ops, lo, hi, n, title) ==
  IF lo > hi THEN st
  ELSE IF lo = hi THEN Emit(st, ops[lo], n, title)
  ELSE Then(RunCalls(st, ops, lo, (lo + hi) \div 2, n, title), LAMBDA s :
            RunCalls(s, ops, (lo + hi) \div 2 + 1, hi, n, title))

RunScript(st, ops, n, title) == RunCalls(st, ops, 1, Len(ops), n, title)

\* The date of the run drawn into the picture and a dated page added.
RenderStamped(inp, env) ==
  IF inp.kind = "raster"
  THEN [font  |-> TryFonts(mono_fonts, inp.avail).font,
        draws |-> DrawRuns(60 + 24, 140 + 50, inp.line, inp.width).draws,
        image |-> gradient_image(MaxSide, MaxSide, INDIGO_900, DeepIndigo, "diagonal"),
        stamp |-> env.clock]
  ELSE [pages |-> Len(RunScript(BrandedPDF, Script(inp.d), inp.n, inp.title).pages)
                    + (IF env.clock = "first" THEN 0 ELSE 1)]

\* What a run produces: for a picture the font chosen, the runs as drawn and
\* the gradient's pixels; for a document its number of pages.  Nothing in
\* either script reads the clock or the output directory.
Render(inp, env) ==
  IF inp.kind = "raster"
  THEN [font  |-> TryFonts(mono_fonts, inp.avail).font,
        draws |-> DrawRuns(60 + 24, 140 + 50, inp.line, inp.width).draws,
        image |-> gradient_image(MaxSide, MaxSide, INDIGO_900, DeepIndigo, "diagonal")]
  ELSE [pages |-> Len(RunScript(BrandedPDF, Script(inp.d), inp.n, inp.title).pages)]

InitTwin ==
  /\ doc = 0 /\ ip = 1 /\ pdf = BrandedPDF
  /\ g = Idle /\ tk = Idle /\ fs = Idle /\ run = Idle /\ logo = Idle /\ tbl = Idle
  /\ \E inp \in TwinInputs, e1 \in TwinEnvs, e2 \in TwinEnvs :
       tw = [phase |-> "twin", inp |-> inp, env |-> << e1, e2 >>,
             ran |-> << FALSE, FALSE >>, out |-> << "none", "none" >>]

TwinRun(i) ==
  /\ tw.phase = "twin"
  /\ ~tw.ran[i]
  /\ tw' = [tw EXCEPT !.ran[i] = TRUE, !.out[i] = Render(tw.inp, tw.env[i])]
  /\ UNCHANGED << doc, ip, pdf, g, tk, fs, run, logo, tbl >>

RunOne == TwinRun(1)

RunOther == TwinRun(2)

NextTwin ==
  \/ RunOne
  \/ RunOther

TwinSpec == InitTwin /\ [][NextTwin]_vars

TwinDone == tw.phase = "twin" /\ tw.ran[1] /\ tw.ran[2]

====
